---- MODULE Spec2Model ----
(***************************************************************************)
(* A model of session.py: the unit-of-work Session placed between the      *)
(* application and a CouchDB database.  The state is the session's         *)
(* identity cache and its three tracking collections, the wrapped document *)
(* objects on the heap (object identity is a handle), the reference the    *)
(* application keeps in its variable, and the database behind the session. *)
(***************************************************************************)
EXTENDS Integers, Sequences, FiniteSets, TLC

\* ---------------------------------------------------------------- bounds
\* Number of wrapped document objects the session allocates in one run.
MaxObjs == 2
\* Largest revision number the database hands out for one id.
MaxRev == 3

\* ---------------------------------------------------------------- values
\* The document ids: those the application names itself, and those
\* uuid.uuid4().hex yields for a document created without an _id.
AllIds == {"a", "b"}
\* A fixed enumeration of the ids, used where the code iterates a set.
IdOrder == <<"a", "b">>
\* Values of the one data field ('foo') of a document; NoVal: the key is absent.
NoVal == "none"
Vals == {"bar", "wibble"}
\* Python's None, as a handle; NoRev: the document has no '_rev' key.
None == 0
NoRev == 0
Handles == 1..MaxObjs
NoId == "-"
BlankDoc == [id |-> NoId, rev |-> NoRev, foo |-> NoVal]

VARIABLES
    store,      \* the database: id -> [live, rev, foo]
    cache,      \* Session._cache: id -> handle of the wrapped document, or None
    created,    \* Session._created
    changed,    \* Session._changed
    deleted,    \* Session._deleted: id -> recorded _rev, NoRev when id is no key
    objs,       \* the heap: handle -> the wrapped document's content
    held,       \* the document the application's variable refers to (a set of <= 1 handle)
    nobj,       \* number of handles allocated so far
    flushed     \* where the latest operation, when it was a flush, ended ("" otherwise)

vars == <<store, cache, created, changed, deleted, objs, held, nobj, flushed>>


\* ------------------------------------------------------------ the database
\* The database before the session is opened: "a" is persisted, "b" never
\* existed.
InitStore ==
    [i \in AllIds |->
        IF i = "a" THEN [live |-> TRUE, rev |-> 1, foo |-> "bar"]
        ELSE [live |-> FALSE, rev |-> 0, foo |-> NoVal]]

\* Database.get(id, default): the stored document, when there is one.
DbHas(id) == store[id].live
DbDoc(id) == [id |-> id, rev |-> store[id].rev, foo |-> store[id].foo]

\* One record of a _bulk_docs request is accepted when its revision is the
\* current one: no _rev for an id with no live document, the live document's
\* _rev otherwise.
DbAccepts(st, rec) ==
    IF rec.rev = NoRev THEN ~st[rec.id].live
    ELSE st[rec.id].live /\ st[rec.id].rev = rec.rev

DbWrite(st, rec, alive) ==
    [st EXCEPT ![rec.id] = [live |-> alive, rev |-> st[rec.id].rev + 1,
                            foo |-> IF alive THEN rec.foo ELSE NoVal]]

\* Database.update(batch): the records are applied in order; the request is
\* accepted when every record is, and then answers one {_id, _rev} per record.
RECURSIVE DbUpdate(_, _, _)
DbUpdate(st, batch, alive) ==
    IF batch = <<>> THEN [ok |-> TRUE, st |-> st, resp |-> <<>>]
    ELSE LET rec == Head(batch)
         IN  IF ~DbAccepts(st, rec) THEN [ok |-> FALSE, st |-> st, resp |-> <<>>]
             ELSE LET st1 == DbWrite(st, rec, alive)
                      rest == DbUpdate(st1, Tail(batch), alive)
                  IN  [ok |-> rest.ok, st |-> rest.st,
                       resp |-> <<[id |-> rec.id, rev |-> st1[rec.id].rev]>> \o rest.resp]

\* ------------------------------------------------------------ Session helpers
InOrder(S) == SelectSeq(IdOrder, LAMBDA i : i \in S)

\* CPython frees a wrapped document once neither the cache nor the application
\* refers to it: its content is dropped (its handle is not used again).
Live(c, hl) == hl \cup ({c[i] : i \in AllIds} \ {None})
Gc(o, c, hl) == [h \in Handles |-> IF h \in Live(c, hl) THEN o[h] ELSE BlankDoc]

\* Session._cached: wrap the document and store the wrapper, a new object,
\* under its id.
NewHandle == nobj + 1
CachedCache(doc) == [cache EXCEPT ![doc.id] = NewHandle]
CachedObjs(doc) == [objs EXCEPT ![NewHandle] = doc]

\* The closure `modified` of Session._cached.
Modified(id) == changed \cup {id}

\* Mutants of Tombstoned: get never hides a cached document; get hides a
\* document pending deletion even when it was created again.
TombstonedNever(h) == FALSE
TombstonedAlthoughCreated(h) == deleted[objs[h].id] # NoRev

\* Session.get, line 79: a cached document is hidden when its id is pending
\* deletion and was not created again.
Tombstoned(h) == deleted[objs[h].id] # NoRev /\ objs[h].id \notin created

Init ==
    /\ store = InitStore
    /\ cache = [i \in AllIds |-> None]
    /\ created = {}
    /\ changed = {}
    /\ deleted = [i \in AllIds |-> NoRev]
    /\ objs = [h \in Handles |-> BlankDoc]
    /\ held = {}
    /\ nobj = 0
    /\ flushed = ""

\* ------------------------------------------------------------ Session.create
\* The id uuid4 yields is one no document, cache entry or object uses.
FreshUuids ==
    {u \in AllIds : /\ store[u].rev = 0
                   /\ cache[u] = None
                   /\ deleted[u] = NoRev
                   /\ \A h \in Handles : objs[h].id # u}

CreateDoc(doc) ==
    /\ nobj < MaxObjs
    /\ nobj' = NewHandle
    /\ created' = created \cup {doc.id}
    /\ cache' = CachedCache(doc)
    /\ flushed' = ""
    /\ UNCHANGED <<store, changed, deleted, held>>
    /\ objs' = Gc(CachedObjs(doc), cache', held')

\* create(data) with data = {'_id': id, 'foo': v} or {'foo': v}.
Create(id, v) == CreateDoc([id |-> id, rev |-> NoRev, foo |-> v])

CreateNoId(v) ==
    \E u \in FreshUuids : CreateDoc([id |-> u, rev |-> NoRev, foo |-> v])

\* ------------------------------------------------------------ Session.get
\* The value get(id) returns in the current state: a handle, or None.
GetRet(id) ==
    IF cache[id] # None
    THEN IF Tombstoned(cache[id]) THEN None ELSE cache[id]
    ELSE IF DbHas(id) THEN NewHandle ELSE None

\* session[id] raises ResourceNotFound where get(id) returns None.
GetItemRaises(id) == GetRet(id) = None

\* Mutant of GetCaches: get asks the database without trying the cache first.
GetCachesAlways(id) == DbHas(id)

\* A cache miss the database answers wraps and caches the answer.
GetCaches(id) == cache[id] = None /\ DbHas(id)
GetCache(id) == IF GetCaches(id) THEN CachedCache(DbDoc(id)) ELSE cache
GetObjs(id) == IF GetCaches(id) THEN CachedObjs(DbDoc(id)) ELSE objs

GetCall(id) ==
    /\ GetCaches(id) => nobj < MaxObjs
    /\ nobj' = IF GetCaches(id) THEN NewHandle ELSE nobj
    /\ cache' = GetCache(id)
    /\ held' = IF GetRet(id) # None THEN {GetRet(id)} ELSE held
    /\ objs' = Gc(GetObjs(id), cache', held')
    /\ flushed' = ""
    /\ UNCHANGED <<store, created, changed, deleted>>

\* get(id): None when the document is absent or tombstoned.
Get(id) == GetCall(id)

\* session[id]: ResourceNotFound instead of None.
GetItem(id) == GetCall(id)

\* ------------------------------------------------------------ Session.delete
\* delete(doc), on the cache c the call finds: a created id is dropped with its
\* cache entry, any other loses its changed membership and is recorded in
\* deleted with doc['_rev'] (a KeyError when doc has no '_rev', after the
\* discard).
\* Mutants of delete: the created id is kept; the changed id is kept.
DeleteCreatedKept(doc) == created
DeleteChangedKept(doc) == changed

\* Mutant of DeleteDeleted: the database's revision is recorded, not the
\* document's own.
DeleteDeletedStoreRev(doc) ==
    IF doc.id \in created \/ doc.rev = NoRev THEN deleted
    ELSE [deleted EXCEPT ![doc.id] = store[doc.id].rev]

DeleteCreated(doc) == created \ {doc.id}
DeleteCache(c, doc) == IF doc.id \in created THEN [c EXCEPT ![doc.id] = None] ELSE c
DeleteChanged(doc) == IF doc.id \in created THEN changed ELSE changed \ {doc.id}
DeleteDeleted(doc) ==
    IF doc.id \in created \/ doc.rev = NoRev THEN deleted
    ELSE [deleted EXCEPT ![doc.id] = doc.rev]

Delete(h) ==
    /\ h \in held
    /\ created' = DeleteCreated(objs[h])
    /\ cache' = DeleteCache(cache, objs[h])
    /\ changed' = DeleteChanged(objs[h])
    /\ deleted' = DeleteDeleted(objs[h])
    /\ flushed' = ""
    /\ UNCHANGED <<store, held, nobj>>
    /\ objs' = Gc(objs, cache', held')

\* del session[id]: delete(self[id]).
DelItem(id) ==
    /\ GetCaches(id) => nobj < MaxObjs
    /\ nobj' = IF GetCaches(id) THEN NewHandle ELSE nobj
    /\ IF GetRet(id) = None
       THEN /\ cache' = GetCache(id)
            /\ UNCHANGED <<created, changed, deleted>>
       ELSE LET doc == GetObjs(id)[GetRet(id)]
            IN  /\ created' = DeleteCreated(doc)
                /\ cache' = DeleteCache(GetCache(id), doc)
                /\ changed' = DeleteChanged(doc)
                /\ deleted' = DeleteDeleted(doc)
    /\ flushed' = ""
    /\ UNCHANGED <<store, held>>
    /\ objs' = Gc(GetObjs(id), cache', held')

\* ------------------------------------------------------------ wrapped documents
\* doc['foo'] = v on a wrapped document the application holds:
\* Dictionary.__setitem__ calls modified(), then stores the value.
SetField(h, v) ==
    /\ h \in held
    /\ changed' = Modified(objs[h].id)
    /\ objs' = [objs EXCEPT ![h].foo = v]
    /\ flushed' = ""
    /\ UNCHANGED <<store, cache, created, deleted, held, nobj>>

\* Mutant of ReadField: reading a field calls modified().
ReadFieldTracks(h) ==
    /\ h \in held
    /\ changed' = Modified(objs[h].id)
    /\ flushed' = ""
    /\ UNCHANGED <<store, cache, created, deleted, objs, held, nobj>>

\* doc['foo'] read from a wrapped document: Dictionary.__getitem__.
ReadField(h) ==
    /\ h \in held
    /\ flushed' = ""
    /\ UNCHANGED <<store, cache, created, changed, deleted, objs, held, nobj>>

\* ------------------------------------------------------------ Session.__setitem__
\* Mutant of SetItem: content is created whether or not it carries a '_rev'.
SetItemAlwaysCreates(id, r, v) == CreateDoc([id |-> id, rev |-> r, foo |-> v])

\* session[id] = content, content = {'_rev': r, 'foo': v} or {'foo': v}.
SetItem(id, r, v) ==
    IF r # NoRev
    THEN /\ flushed' = ""
         /\ UNCHANGED <<store, cache, created, changed, deleted, objs, held, nobj>>
    ELSE CreateDoc([id |-> id, rev |-> NoRev, foo |-> v])

\* ------------------------------------------------------------ SessionRow.doc
\* The doc of a row of view(..., include_docs=True) or query(...): the database
\* has a row for every live document, with the stored document embedded.
\* Mutant of RowDocCaches: a row's document is wrapped anew on every access.
RowDocCachesAlways(id) == TRUE

\* SessionRow._get_doc: the cached instance, else the row's document wrapped
\* and cached.
RowDocCaches(id) == cache[id] = None
RowDocRet(id) == IF RowDocCaches(id) THEN NewHandle ELSE cache[id]

RowDoc(id) ==
    /\ DbHas(id)
    /\ RowDocCaches(id) => nobj < MaxObjs
    /\ nobj' = IF RowDocCaches(id) THEN NewHandle ELSE nobj
    /\ cache' = IF RowDocCaches(id) THEN CachedCache(DbDoc(id)) ELSE cache
    /\ objs' = Gc(IF RowDocCaches(id) THEN CachedObjs(DbDoc(id)) ELSE objs, cache', held)
    /\ flushed' = ""
    /\ UNCHANGED <<store, created, changed, deleted, held>>

\* ------------------------------------------------------------ Session.flush
\* Mutant of Deletions: no deletion record for an id that was created again.
DeletionsWithoutCreated ==
    LET ids == InOrder({i \in AllIds : deleted[i] # NoRev /\ i \notin created})
    IN  [k \in 1..Len(ids) |-> [id |-> ids[k], rev |-> deleted[ids[k]], foo |-> NoVal]]

\* Line 117: one {_id, _rev, _deleted} record per entry of _deleted.
Deletions ==
    LET ids == InOrder({i \in AllIds : deleted[i] # NoRev})
    IN  [k \in 1..Len(ids) |-> [id |-> ids[k], rev |-> deleted[ids[k]], foo |-> NoVal]]

\* Lines 119-121: dict(self._cache[doc_id]) for the ids of _created, then for
\* those of _changed; a KeyError when one of them has no cache entry.
UpdateIds == InOrder(created) \o InOrder(changed)
UpdatesBuilt == \A i \in created \cup changed : cache[i] # None
Updates == [k \in 1..Len(UpdateIds) |-> objs[cache[UpdateIds[k]]]]

\* Lines 124-126: the ids the loop evicts, and those it fails on.
Evictable == {i \in AllIds : deleted[i] # NoRev /\ i \notin created}
EvictMissing == {i \in Evictable : cache[i] = None}
\* Mutant of Evict: flush leaves the deleted documents in the cache.
EvictNothing(c, S) == c

Evict(c, S) == [i \in AllIds |-> IF i \in S THEN None ELSE c[i]]

\* Mutant of WriteBack: the returned revisions are dropped.
WriteBackNothing(o, ch, c, resp) == [ok |-> TRUE, objs |-> o, changed |-> ch]

\* Lines 129-130: the returned _rev is stored in the cached document, through
\* Dictionary.__setitem__ (which calls modified()); a KeyError at the first
\* response whose id has no cache entry.
RECURSIVE WriteBack(_, _, _, _)
WriteBack(o, ch, c, resp) ==
    IF resp = <<>> THEN [ok |-> TRUE, objs |-> o, changed |-> ch]
    ELSE LET r == Head(resp)
         IN  IF c[r.id] = None THEN [ok |-> FALSE, objs |-> o, changed |-> ch]
             ELSE WriteBack([o EXCEPT ![c[r.id]].rev = r.rev],
                            ch \cup {o[c[r.id]].id}, c, Tail(resp))

\* The revisions a flush makes the database hand out stay within MaxRev.
FlushFits ==
    UpdatesBuilt =>
        LET d == DbUpdate(store, Deletions, FALSE)
        IN  d.ok => \A i \in AllIds : DbUpdate(d.st, Updates, TRUE).st[i].rev <= MaxRev

\* Mutant of FlushUpd: the upsert batch is applied to the database as it was
\* before the deletion batch.
FlushUpdFirst == DbUpdate(store, Updates, TRUE)

\* The database's answers to the two batches of a flush.
FlushDel == DbUpdate(store, Deletions, FALSE)
FlushUpd == DbUpdate(FlushDel.st, Updates, TRUE)

\* Mutant of FlushStage: a failure of the deletion batch is swallowed.
FlushStageSwallowsDelete(failDel, failUpd) ==
    IF ~UpdatesBuilt THEN "build"
    ELSE IF ~FlushDel.ok THEN "delete"
    ELSE IF EvictMissing # {} THEN "evict"
    ELSE IF failUpd \/ ~FlushUpd.ok THEN "update"
    ELSE IF ~WriteBack(objs, changed, Evict(cache, Evictable), FlushUpd.resp).ok
         THEN "writeback"
    ELSE "done"

\* Where flush() ends; failDel and failUpd: the database call fails for a
\* reason of its own (the server is down), whatever the batch holds.
\*   "build"     KeyError building the updates (line 121), nothing sent
\*   "delete"    the deletion batch raised (line 123)
\*   "evict"     KeyError in the eviction loop (line 126)
\*   "update"    the upsert batch raised (line 129)
\*   "writeback" KeyError storing a returned _rev (line 130)
\*   "done"      flush returned
FlushStage(failDel, failUpd) ==
    IF ~UpdatesBuilt THEN "build"
    ELSE IF failDel \/ ~FlushDel.ok THEN "delete"
    ELSE IF EvictMissing # {} THEN "evict"
    ELSE IF failUpd \/ ~FlushUpd.ok THEN "update"
    ELSE IF ~WriteBack(objs, changed, Evict(cache, Evictable), FlushUpd.resp).ok
         THEN "writeback"
    ELSE "done"

\* The database calls a flush that ends at `stage` has made, in order.
FlushCalls(stage) ==
    CASE stage = "build" -> <<>>
      [] stage \in {"delete", "evict"} -> <<"delete">>
      [] OTHER -> <<"delete", "update">>

Flush(failDel, failUpd) ==
    LET stage == FlushStage(failDel, failUpd)
        evicted == Evict(cache, Evictable)
        w == WriteBack(objs, changed, evicted, FlushUpd.resp)
    IN
    /\ FlushFits
    /\ flushed' = stage
    /\ UNCHANGED <<held, nobj>>
    /\ CASE stage \in {"build", "delete"} ->
              UNCHANGED <<store, cache, created, changed, deleted, objs>>
         [] stage = "evict" ->
              /\ \E S \in SUBSET (Evictable \ EvictMissing) : cache' = Evict(cache, S)
              /\ store' = FlushDel.st
              /\ objs' = Gc(objs, cache', held)
              /\ UNCHANGED <<created, changed, deleted>>
         [] stage = "update" ->
              /\ store' = FlushDel.st
              /\ cache' = evicted
              /\ deleted' = [i \in AllIds |-> NoRev]
              /\ objs' = Gc(objs, cache', held)
              /\ UNCHANGED <<created, changed>>
         [] stage = "writeback" ->
              /\ store' = FlushUpd.st
              /\ cache' = evicted
              /\ deleted' = [i \in AllIds |-> NoRev]
              /\ objs' = Gc(w.objs, cache', held)
              /\ changed' = w.changed
              /\ UNCHANGED created
         [] OTHER ->
              /\ store' = FlushUpd.st
              /\ cache' = evicted
              /\ deleted' = [i \in AllIds |-> NoRev]
              /\ objs' = Gc(w.objs, cache', held)
              /\ created' = {}
              /\ changed' = {}

Next ==
    \/ \E id \in AllIds, v \in Vals : Create(id, v)
    \/ \E v \in Vals : CreateNoId(v)
    \/ \E id \in AllIds : Get(id)
    \/ \E id \in AllIds : GetItem(id)
    \/ \E h \in Handles : Delete(h)
    \/ \E id \in AllIds : DelItem(id)
    \/ \E h \in Handles, v \in Vals : SetField(h, v)
    \/ \E h \in Handles : ReadField(h)
    \/ \E id \in AllIds, r \in {NoRev, 1}, v \in Vals : SetItem(id, r, v)
    \/ \E id \in AllIds : RowDoc(id)
    \/ \E failDel \in BOOLEAN, failUpd \in BOOLEAN : Flush(failDel, failUpd)

Spec == Init /\ [][Next]_vars

\* ================================================================ properties
IsDeleted(id) == deleted[id] # NoRev
\* The ids of the records of a batch.
IdsOf(batch) == {batch[k].id : k \in DOMAIN batch}
\* The documents the database holds.
LiveIds(st) == {i \in AllIds : st[i].live}
\* The application's variable refers to the document cached under id.
HoldsCached(id) == cache[id] # None /\ held = {cache[id]}

\* ---------------------------------------------------------------- C1
\* C1 as stated: a get(id) (or session[id]) that returns a document returns the
\* instance an earlier get of the same id returned, the one the application
\* still holds, whatever the session did in between.
C1_AnyTwoGetsSameInstance ==
    \A id \in AllIds : \A h \in held :
        objs[h].id = id /\ GetRet(id) # None => GetRet(id) = h

\* C1 amended: the cache holds one instance per id, filed under the document's
\* own id; a get that returns a document returns the cached instance and leaves
\* it cached, and as long as the instance an earlier get returned is still the
\* one cached under the id, get returns it again without wrapping anew.
C1_IdentityMap ==
    /\ [](\A id \in AllIds :
            /\ cache[id] # None => objs[cache[id]].id = id
            /\ HoldsCached(id) /\ GetRet(id) # None =>
                   GetRet(id) = cache[id] /\ ~GetCaches(id))
    /\ [][\A id \in AllIds :
            (Get(id) \/ GetItem(id)) /\ GetRet(id) # None =>
                /\ cache'[id] = GetRet(id)
                /\ held' = {GetRet(id)}
                /\ cache[id] # None => cache' = cache]_vars

\* Two get("a") in a row: the application holds the instance cached under "a"
\* and get("a") returns it.
C1_Witness == HoldsCached("a") /\ GetRet("a") = cache["a"] /\ nobj = 1

\* ---------------------------------------------------------------- C2
\* C2: no id is in both created and changed (the mutation callback leaves an
\* id that is already in created alone).
C2_CreatedChangedDisjoint == created \cap changed = {}

C5_FlushRemovesEveryDeleted ==
    [][\A fd \in BOOLEAN, fu \in BOOLEAN :
        flushed' = "done" /\ FlushStage(fd, fu) = "done" /\ Flush(fd, fu) =>
            /\ created' = {} /\ changed' = {}
            /\ \A id \in AllIds : ~IsDeleted(id)'
            /\ \A id \in AllIds : IsDeleted(id) =>
                   cache'[id] = None /\ ~store'[id].live]_vars

\* C5 amended: ... every id that was pending deletion and was not created
\* again is absent from the cache and from the database; one that was created
\* again (it is in created too) stays cached and is live in the database.
C5_FlushReconciles ==
    [][\A fd \in BOOLEAN, fu \in BOOLEAN :
        flushed' = "done" /\ FlushStage(fd, fu) = "done" /\ Flush(fd, fu) =>
            /\ created' = {} /\ changed' = {}
            /\ \A id \in AllIds : ~IsDeleted(id)'
            /\ \A id \in AllIds : IsDeleted(id) /\ id \notin created =>
                   cache'[id] = None /\ ~store'[id].live
            /\ \A id \in AllIds : IsDeleted(id) /\ id \in created =>
                   cache'[id] = cache[id] /\ cache[id] # None /\ store'[id].live]_vars

\* A flush has deleted "a": nothing is pending, "a" is in neither the cache nor
\* the database.
C5_Witness ==
    /\ flushed = "done" /\ created = {} /\ changed = {}
    /\ ~store["a"].live /\ store["a"].rev = 2 /\ cache["a"] = None

\* ---------------------------------------------------------------- C6
\* C6: create under the id of a persisted document that is pending deletion
\* makes get(id) return the new content at once; the flush that follows leaves
\* the database with one live document at the id, holding the new field value
\* (no document more or less in the database when nothing else was pending),
\* and the cache with the same instance, carrying the new revision.
C6_RecreateAfterDelete ==
    [][\A id \in AllIds :
        /\ \A v \in Vals :
             IsDeleted(id) /\ store[id].live /\ Create(id, v)
                 => /\ GetRet(id)' = cache'[id]
                    /\ cache'[id] # None
                    /\ objs'[cache'[id]] = [id |-> id, rev |-> NoRev, foo |-> v]
        /\ \A fd \in BOOLEAN, fu \in BOOLEAN :
             ( /\ IsDeleted(id) /\ id \in created /\ store[id].live
               /\ flushed' = "done" /\ FlushStage(fd, fu) = "done"
               /\ Flush(fd, fu) )
                 => /\ store'[id].live
                    /\ store'[id].foo = objs[cache[id]].foo
                    /\ cache'[id] = cache[id]
                    /\ objs'[cache[id]].rev = store'[id].rev
                    /\ objs'[cache[id]].foo = objs[cache[id]].foo
                    /\ (created = {id} /\ changed = {} /\ IdsOf(Deletions) = {id}
                            => LiveIds(store') = LiveIds(store))]_vars

\* The application still holds the deleted instance of "a"; the cache holds the
\* one created in its place, flushed: the database has "a" at its third
\* revision with the new value.
C6_Witness ==
    /\ flushed = "done"
    /\ \E h \in held : objs[h].id = "a" /\ cache["a"] # h /\ objs[h].rev = 1
    /\ cache["a"] # None /\ objs[cache["a"]].rev = 3 /\ objs[cache["a"]].foo = "wibble"
    /\ store["a"] = [live |-> TRUE, rev |-> 3, foo |-> "wibble"]

\* ---------------------------------------------------------------- C7
\* What a flush called in the current state hands the database about id: an
\* upsert record, a deletion record.
SendsUpsert(id) == UpdatesBuilt /\ id \in IdsOf(Updates)
SendsDeletion(id) == UpdatesBuilt /\ id \in IdsOf(Deletions)

\* C7 as stated: delete(doc) of a document whose id is in created removes the
\* id from created and from the cache, does not add it to deleted, and a flush
\* that follows sends nothing about the id.
C7_DeleteOfNewSendsNothing ==
    [][\A h \in held :
        Delete(h) /\ objs[h].id \in created =>
            /\ objs[h].id \notin created'
            /\ cache'[objs[h].id] = None
            /\ deleted' = deleted
            /\ ~SendsUpsert(objs[h].id)'
            /\ ~SendsDeletion(objs[h].id)']_vars

\* C7 amended: ... does not add it to deleted (deleted is left as it was), and
\* a flush that follows sends no upsert record for the id; it sends a deletion
\* record for the id only when the id was already pending deletion before the
\* document was created.
C7_DeleteOfNew ==
    [][\A h \in held :
        Delete(h) /\ objs[h].id \in created =>
            /\ objs[h].id \notin created'
            /\ cache'[objs[h].id] = None
            /\ deleted' = deleted
            /\ ~SendsUpsert(objs[h].id)'
            /\ SendsDeletion(objs[h].id)' => IsDeleted(objs[h].id)]_vars

\* The application holds a document of id "b" that has no revision and is
\* neither cached nor in created: it was created and deleted, never flushed.
C7_Witness ==
    /\ \E h \in held : objs[h].id = "b" /\ objs[h].rev = NoRev
    /\ cache["b"] = None /\ "b" \notin created /\ ~IsDeleted("b")
    /\ store["b"].rev = 0

\* ---------------------------------------------------------------- C8
\* C8: delete(doc) of a persisted document the session fetched (not in
\* created) removes its id from the cache at once, before any flush.
C8_DeleteEvictsPersisted ==
    [][\A h \in held :
        ( /\ Delete(h)
          /\ objs[h].id \notin created
          /\ objs[h].rev # NoRev
          /\ cache[objs[h].id] = h )
            => cache'[objs[h].id] = None]_vars

\* ---------------------------------------------------------------- C9
\* C9 as stated: row.doc is the instance get(id) returns for the row's id, in
\* every state: where the document is cached already, and right after row.doc
\* wrapped and cached it.
C9_RowDocIsWhatGetReturns ==
    /\ [](\A id \in AllIds :
            DbHas(id) /\ ~RowDocCaches(id) => GetRet(id) = RowDocRet(id))
    /\ [][\A id \in AllIds :
            RowDoc(id) /\ RowDocCaches(id) => GetRet(id)' = RowDocRet(id)]_vars

\* C9 amended: row.doc is the instance the cache holds for the row's id (the
\* cached one, else the row's document wrapped and cached), and it is the
\* instance get(id) returns whenever get(id) returns a document; for an id
\* pending deletion get(id) returns None while row.doc still yields the
\* instance.
C9_RowDocIdentity ==
    /\ [](\A id \in AllIds :
            DbHas(id) /\ ~RowDocCaches(id) =>
                /\ RowDocRet(id) = cache[id]
                /\ GetRet(id) \in {RowDocRet(id), None}
                /\ GetRet(id) = None <=> IsDeleted(id) /\ id \notin created)
    /\ [][\A id \in AllIds :
            RowDoc(id) /\ RowDocCaches(id) =>
                /\ cache'[id] = RowDocRet(id)
                /\ objs'[cache'[id]] = DbDoc(id)
                /\ ~RowDocCaches(id)'
                /\ GetRet(id)' \in {RowDocRet(id), None}
                /\ GetRet(id)' = None <=> IsDeleted(id) /\ id \notin created]_vars

\* row.doc wrapped and cached the document of "a": the cache holds an instance
\* the application's variable does not refer to, and get("a") returns it.
C9_Witness ==
    /\ cache["a"] # None /\ held = {} /\ created = {} /\ ~IsDeleted("a")
    /\ store["a"].rev = 1 /\ GetRet("a") = cache["a"] /\ RowDocRet("a") = cache["a"]

\* ---------------------------------------------------------------- C10
\* The session's own state.
SessionState == <<cache, created, changed, deleted, objs>>

\* C10: when the database raises on the deletion batch, flush ends there: the
\* upsert batch is not sent, and the cache, created, changed and deleted are
\* what they were before the call (a flush called again builds the same
\* batches).
C10_DeletionFailureLeavesState ==
    [][\A fu \in BOOLEAN :
        UpdatesBuilt /\ flushed' # "" /\ Flush(TRUE, fu) =>
            /\ flushed' = "delete"
            /\ FlushCalls(flushed') = <<"delete">>
            /\ UNCHANGED <<SessionState, store>>
            /\ Deletions' = Deletions
            /\ Updates' = Updates]_vars

\* A flush with work pending (a deletion, an addition, a change) has just ended
\* at the deletion batch.
C10_Witness ==
    /\ flushed = "delete"
    /\ \E id \in AllIds : IsDeleted(id)
    /\ created # {} /\ changed # {}

\* ---------------------------------------------------------------- C11
\* A flush that ended at one of these stages has made both database calls.
BothCalled == {"update", "writeback", "done"}

\* C11 as stated: no flush sends a deletion record and an upsert record for
\* the same id (for an id eligible for both, flush ends before both requests
\* are made).
C11_NeverBothForOneId ==
    \A id \in AllIds, fd \in BOOLEAN, fu \in BOOLEAN :
        SendsDeletion(id) /\ SendsUpsert(id)
            => FlushStage(fd, fu) \notin BothCalled

\* C11 amended: a flush sends a deletion record and an upsert record for the
\* same id exactly when the id is in deleted and in created or changed; it
\* does not reject: the deletion record goes in the first call, the upsert
\* record in the second, and when the database accepts both, the document is
\* deleted and written anew (two revisions later it is live).
C11_SplitSendsBoth ==
    /\ [](\A id \in AllIds :
            SendsDeletion(id) /\ SendsUpsert(id)
                <=> UpdatesBuilt /\ IsDeleted(id) /\ id \in created \cup changed)
    /\ [][\A fd \in BOOLEAN, fu \in BOOLEAN :
            flushed' \in BothCalled /\ Flush(fd, fu) =>
                \A id \in AllIds :
                    IsDeleted(id) /\ id \in created \cup changed =>
                        /\ SendsDeletion(id) /\ SendsUpsert(id)
                        /\ FlushCalls(flushed') = <<"delete", "update">>
                        /\ flushed' = "done" =>
                               /\ store'[id].live
                               /\ store'[id].rev = store[id].rev + 2]_vars

\* del session["a"], then a create under "a", then a flush the database
\* accepted: no document was ever handed to the application, and "a" is live
\* at its third revision.
C11_Witness ==
    /\ flushed = "done" /\ held = {}
    /\ store["a"].live /\ store["a"].rev = 3
    /\ cache["a"] # None /\ objs[cache["a"]].rev = 3

\* ---------------------------------------------------------------- C12
\* C12: session[id] = content changes nothing when content carries a '_rev'
\* (cache, created, changed, deleted, the wrapped documents and the database
\* are what they were); without a '_rev' it does what create with the id does:
\* the id is in created and a new wrapped document with the content is cached
\* under the id.
C12_SetItem ==
    [][\A id \in AllIds, v \in Vals :
        /\ \A r \in 1..MaxRev :
             SetItem(id, r, v) => UNCHANGED <<SessionState, store, held, nobj>>
        /\ SetItem(id, NoRev, v) =>
             /\ Create(id, v)
             /\ created' = created \cup {id}
             /\ cache'[id] = NewHandle /\ cache'[id] # cache[id]
             /\ objs'[cache'[id]] = [id |-> id, rev |-> NoRev, foo |-> v]
             /\ \A i \in AllIds \ {id} : cache'[i] = cache[i]
             /\ UNCHANGED <<changed, deleted, store, held>>]_vars

\* session["b"] = {'foo': 'wibble'} on a new session: "b" is in created and
\* cached, nothing else is.
C12_Witness ==
    /\ created = {"b"} /\ changed = {} /\ held = {} /\ nobj = 1
    /\ cache["a"] = None /\ cache["b"] = 1
    /\ objs[1] = [id |-> "b", rev |-> NoRev, foo |-> "wibble"]
    /\ store = InitStore

\* ---------------------------------------------------------------- C13
\* What the database would report per record of the upsert batch: the id and
\* whether the record's revision is the current one.
UpsertResults ==
    [k \in 1..Len(Updates) |->
        [id |-> Updates[k].id, ok |-> DbAccepts(FlushDel.st, Updates[k])]]

\* The upsert batch holds a record the database accepts and one it rejects.
PartialFailure ==
    /\ UpdatesBuilt /\ FlushDel.ok /\ EvictMissing = {}
    /\ \E k \in DOMAIN UpsertResults : UpsertResults[k].ok
    /\ \E k \in DOMAIN UpsertResults : ~UpsertResults[k].ok

\* What flush() gives its caller: the function has no return statement, so it
\* returns None when it reaches its end and raises otherwise.
FlushRet(failDel, failUpd) ==
    IF FlushStage(failDel, failUpd) = "done"
    THEN [kind |-> "None", vec |-> <<>>]
    ELSE [kind |-> "raise", vec |-> <<>>]

\* C13: when the upsert batch fails in part, flush hands the per-document
\* results back to its caller.
C13_PartialFailureVector ==
    \A fu \in BOOLEAN :
        PartialFailure =>
            FlushRet(FALSE, fu) = [kind |-> "vector", vec |-> UpsertResults]

\* ---------------------------------------------------------------- C14
\* C14 as stated: every flush makes exactly two database calls, the deletion
\* batch and then the upsert batch (here: with a database that fails for no
\* reason of its own).
C14_ExactlyTwoCalls == FlushCalls(FlushStage(FALSE, FALSE)) = <<"delete", "update">>

\* C14 amended: the deletion batch holds one record per entry of deleted, with
\* the recorded revision; the upsert batch holds the cached documents of
\* created and of changed; a flush calls the database with the deletion batch
\* first and with the upsert batch only after that call has returned (the
\* upsert batch meets the database the deletion batch has left); a flush that
\* returns has made exactly these two calls, a flush that raises has made none
\* (the upsert batch could not be built), one (the deletion call or the
\* eviction loop raised) or two.
C14_FlushOrdering ==
    /\ [](/\ IdsOf(Deletions) = {i \in AllIds : IsDeleted(i)}
          /\ Len(Deletions) = Cardinality({i \in AllIds : IsDeleted(i)})
          /\ \A k \in DOMAIN Deletions : Deletions[k].rev = deleted[Deletions[k].id]
          /\ UpdatesBuilt =>
                /\ IdsOf(Updates) = created \cup changed
                /\ \A k \in DOMAIN Updates : Updates[k] = objs[cache[Updates[k].id]])
    /\ [][\A fd \in BOOLEAN, fu \in BOOLEAN :
            flushed' # "" /\ Flush(fd, fu) =>
                LET afterDel == DbUpdate(store, Deletions, FALSE)
                    afterUpd == DbUpdate(afterDel.st, Updates, TRUE)
                IN  /\ flushed' \in {"build", "delete"} =>
                          store' = store /\ Len(FlushCalls(flushed')) <= 1
                    /\ flushed' = "evict" =>
                          store' = afterDel.st /\ FlushCalls(flushed') = <<"delete">>
                    /\ flushed' = "update" =>
                          store' = afterDel.st /\ FlushCalls(flushed') = <<"delete", "update">>
                    /\ flushed' \in {"writeback", "done"} =>
                          /\ afterDel.ok /\ afterUpd.ok
                          /\ store' = afterUpd.st
                          /\ FlushCalls(flushed') = <<"delete", "update">>]_vars

\* One flush has deleted "a" and added "b".
C14_Witness ==
    /\ flushed = "done"
    /\ ~store["a"].live /\ store["a"].rev = 2
    /\ store["b"].live /\ store["b"].rev = 1
    /\ cache["a"] = None /\ cache["b"] # None /\ objs[cache["b"]].rev = 1

\* ---------------------------------------------------------------- C15
\* Only the cached document of id is pending, as a change.
OnlyChanged(id) ==
    /\ changed = {id} /\ created = {}
    /\ \A i \in AllIds : ~IsDeleted(i)
    /\ cache[id] # None

\* C15: after a flush that returned, every cached document that was in created
\* or changed carries the revision the database now holds for it (and the
\* database holds its field value); hence, with this session the only writer,
\* a later mutation of that cached document followed by a flush is accepted
\* and leaves the database with the latest field value.
C15_RevisionWriteBack ==
    /\ [][\A fd \in BOOLEAN, fu \in BOOLEAN :
            flushed' = "done" /\ Flush(fd, fu) =>
                \A id \in created \cup changed :
                    /\ cache'[id] = cache[id] /\ cache[id] # None
                    /\ store'[id].live
                    /\ objs'[cache'[id]].rev = store'[id].rev
                    /\ objs'[cache'[id]].rev # NoRev
                    /\ store'[id].foo = objs'[cache'[id]].foo]_vars
    /\ [](\A id \in AllIds :
            flushed = "done" /\ cache[id] # None /\ store[id].live
                => objs[cache[id]].rev = store[id].rev)
    /\ [](\A id \in AllIds :
            ( /\ OnlyChanged(id) /\ store[id].live
              /\ objs[cache[id]].rev = store[id].rev )
                => /\ FlushStage(FALSE, FALSE) = "done"
                   /\ FlushUpd.st[id].live
                   /\ FlushUpd.st[id].foo = objs[cache[id]].foo
                   /\ FlushUpd.st[id].rev = store[id].rev + 1)

\* The application changed the document of "a", flushed, changed it again and
\* flushed: the one wrapped document carries the database's third revision.
C15_Witness ==
    /\ flushed = "done" /\ nobj = 1 /\ HoldsCached("a")
    /\ store["a"] = [live |-> TRUE, rev |-> 3, foo |-> "wibble"]
    /\ objs[cache["a"]] = [id |-> "a", rev |-> 3, foo |-> "wibble"]

C18_UpsertIdsUnique ==
    UpdatesBuilt =>
        \A k \in DOMAIN Updates, l \in DOMAIN Updates :
            Updates[k].id = Updates[l].id => k = l

\* ---------------------------------------------------------------- C19
\* C19: every id in created or changed is a key of the cache (flush's build
\* of the upsert batch never looks up a missing entry).
C19_TrackedAreCached ==
    /\ \A id \in created \cup changed : cache[id] # None
    /\ \A fd \in BOOLEAN, fu \in BOOLEAN : FlushStage(fd, fu) # "build"

\* ---------------------------------------------------------------- C20
\* C20: every id in deleted that is not in created is a key of the cache (the
\* eviction loop of flush never fails on a missing entry).
C20_DeletedAreCached ==
    /\ \A id \in AllIds : IsDeleted(id) /\ id \notin created => cache[id] # None
    /\ FlushStage(FALSE, FALSE) # "evict"
====
